---- MODULE Spec2Model ----
(***************************************************************************)
(* IVF k-nearest-neighbour search core of TileDB-Vector-Search:            *)
(*   - fixed_min_pair_heap (bounded heap of (score, id) pairs),            *)
(*   - tdbPartitionedMatrix (the partitioned streamer: constructor and     *)
(*     advance),                                                           *)
(*   - detail::ivf::qv_query_heap_infinite_ram / qv_query_heap_finite_ram. *)
(* Vectors are sequences of small naturals, scores are squared L2          *)
(* distances, C++ 0-based indices are kept and sequences are read through  *)
(* At(s, i) == s[i + 1].                                                   *)
(***************************************************************************)
EXTENDS Integers, Sequences, FiniteSets, TLC

VARIABLES
  \* ---- bounded heap exercised on its own (one query's heaps) ----
  hpc,            \* "new" | "open" | "folded" | "sorted"
  hk,             \* capacity k of every heap
  hcmp,           \* comparator: "less" (default) or "greater"
  hs,             \* hs[n]: the heap of thread n - 1 (min_scores[n][j])
  single,         \* one heap of the same capacity that receives every pair
  fed,            \* every (score, id) pair given so far, in order
  \* ---- persistent arrays and query inputs ----
  db,             \* shuffled database: db[c + 1] is column c
  shuffled_ids,   \* shuffled_ids[c + 1] is the original id of column c
  indices,        \* indices vector handed to the query / the streamer
  centroids,      \* centroid vectors
  q,              \* query vectors
  nprobe, k_nn, nthreads, upper_bound,
  top_centroids,  \* top_centroids[j + 1][p + 1]: result of qv_query_nth
  \* ---- tdbPartitionedMatrix ----
  sm,             \* the streamer object (record of its fields)
  ret,            \* outcome of the last advance: "none" | "true" | "false" | "throw"
  active,         \* the list of active partitions handed to the constructor
  served,         \* windows loaded so far: sequence of <<first, last>> positions in parts_
  \* ---- the two query functions ----
  pc,             \* position of the driver
  inf,            \* result of qv_query_heap_infinite_ram
  fin,            \* state and result of qv_query_heap_finite_ram
  \* ---- the worker tasks of one turn of the finite-RAM loop ----
  wk,             \* the futures of the turn and the position of the joining loop
  \* ---- kmeans_index ----
  km              \* the index being trained (record of its fields and locals)

hvars == <<hpc, hk, hcmp, hs, single, fed>>
ivars == <<db, shuffled_ids, indices, centroids, q, nprobe, k_nn, nthreads,
           upper_bound, top_centroids>>
svars == <<sm, ret, active, served>>
qvars == <<pc, inf, fin>>
xvars == <<wk, km>>
vars == <<hvars, ivars, svars, qvars, xvars>>

----------------------------------------------------------------------------
(* Bounds of the model *)

MaxK == 2            \* heap capacities / k_nn range over 1..MaxK
MaxThreads == 2      \* nthreads ranges over 1..MaxThreads
MaxScore == 2        \* scores fed to the stand-alone heap range over 0..MaxScore
MaxFeed == 3         \* pairs fed to the stand-alone heap
SParts == 3          \* partitions of the arrays the stand-alone streamer reads
SMaxSize == 2        \* their sizes range over 0..SMaxSize
SMaxUpper == 3       \* upper_bound of the stand-alone streamer ranges over 0..SMaxUpper
NList == 2           \* number of centroids / partitions of the queried index
QMaxCols == 3        \* columns of the queried database; upper_bound ranges over 0..QMaxCols
MaxCoord == 1        \* vector coordinates range over 0..MaxCoord
MaxQueries == 2      \* number of query vectors
MaxTrainCols == 3    \* vectors of a training set
MaxIter == 3         \* max_iter of a training ranges over 0..MaxIter

----------------------------------------------------------------------------
(* Small helpers *)

At(s, i) == s[i + 1]

Min2(a, b) == IF a < b THEN a ELSE b

Swap(s, i, j) == [s EXCEPT ![i] = s[j], ![j] = s[i]]

RECURSIVE SumSeq(_)
SumSeq(s) == IF s = <<>> THEN 0 ELSE Head(s) + SumSeq(Tail(s))

RECURSIVE Concat(_)
Concat(ss) == IF ss = <<>> THEN <<>> ELSE Head(ss) \o Concat(Tail(ss))

\* ascending insertion sort of a sequence of integers
RECURSIVE InsertSorted(_, _)
InsertSorted(s, x) ==
  IF s = <<>> THEN <<x>>
  ELSE IF x <= Head(s) THEN <<x>> \o s
       ELSE <<Head(s)>> \o InsertSorted(Tail(s), x)

RECURSIVE SortInts(_)
SortInts(s) == IF s = <<>> THEN <<>> ELSE InsertSorted(SortInts(Tail(s)), Head(s))

Reverse(s) == [i \in 1..Len(s) |-> s[Len(s) + 1 - i]]

Scores(h) == [i \in 1..Len(h) |-> h[i][1]]
Ids(h) == [i \in 1..Len(h) |-> h[i][2]]

----------------------------------------------------------------------------
(* fixed_min_pair_heap<T, U, Compare>                                      *)

\* the comparison a heap operation is run with: the heap's score comparator
\* ("less", "greater") or operator< of the (score, id) tuples ("lex")
PairComp(cmp, a, b) ==
  CASE cmp = "less" -> a[1] < b[1]
    [] cmp = "greater" -> a[1] > b[1]
    [] OTHER -> a[1] < b[1] \/ (a[1] = b[1] /\ a[2] < b[2])

is_heap(s, cmp) ==
  \A i \in 2..Len(s) : ~PairComp(cmp, s[i \div 2], s[i])

RECURSIVE SiftUp(_, _, _)
SiftUp(s, i, cmp) ==
  IF i > 1 /\ PairComp(cmp, s[i \div 2], s[i])
  THEN SiftUp(Swap(s, i, i \div 2), i \div 2, cmp)
  ELSE s

push_heap(s, cmp) == SiftUp(s, Len(s), cmp)

RECURSIVE SiftDown(_, _, _, _)
SiftDown(s, i, n, cmp) ==
  LET l == 2 * i
      r == 2 * i + 1
      b1 == IF l <= n /\ PairComp(cmp, s[i], s[l]) THEN l ELSE i
      b2 == IF r <= n /\ PairComp(cmp, s[b1], s[r]) THEN r ELSE b1
  IN IF b2 = i THEN s ELSE SiftDown(Swap(s, i, b2), b2, n, cmp)

\* moves the top of the heap s[1..n] to position n and re-heaps s[1..n-1]
pop_heap_n(s, n, cmp) ==
  IF n <= 1 THEN s ELSE SiftDown(Swap(s, 1, n), 1, n - 1, cmp)

pop_heap(s, cmp) == pop_heap_n(s, Len(s), cmp)

RECURSIVE sort_heap_n(_, _, _)
sort_heap_n(s, n, cmp) ==
  IF n <= 1 THEN s ELSE sort_heap_n(pop_heap_n(s, n, cmp), n - 1, cmp)

sort_heap(s, cmp) == sort_heap_n(s, Len(s), cmp)

\* a faulty variant of insert: a full heap takes every new pair, displacing its top
insert_always_displace(h, k, cmp, x, y) ==
  IF Len(h) < k
  THEN push_heap(Append(h, <<x, y>>), cmp)
  ELSE push_heap([pop_heap(h, cmp) EXCEPT ![Len(h)] = <<x, y>>], cmp)

\* insert(score, id) into a heap h of capacity k
insert(h, k, cmp, x, y) ==
  IF Len(h) < k
  THEN push_heap(Append(h, <<x, y>>), cmp)
  ELSE IF k > 0 /\ PairComp(cmp, <<x, y>>, h[1])
       THEN push_heap([pop_heap(h, cmp) EXCEPT ![Len(h)] = <<x, y>>], cmp)
       ELSE h

\* inserts the pairs of l, in order
RECURSIVE insert_all(_, _, _, _)
insert_all(h, k, cmp, l) ==
  IF l = <<>> THEN h
  ELSE insert_all(insert(h, k, cmp, Head(l)[1], Head(l)[2]), k, cmp, Tail(l))

\* fixed_min_pair_heap(k, {pairs...}, compare): the initializer-list constructor
heap_from_list(k, cmp, l) == insert_all(<<>>, k, cmp, l)

----------------------------------------------------------------------------
(* tdbPartitionedMatrix: the partitioned streamer                          *)

\* size of the partition at position i of parts_
PartSize(s, i) ==
  At(s.indices_, At(s.parts_, i) + 1) - At(s.indices_, At(s.parts_, i))

\* the object before its constructor has run
NoStreamer ==
  [ built |-> FALSE, indices_ |-> <<>>, parts_ |-> <<>>, ids_ |-> <<>>,
    data_ |-> <<>>, num_array_cols_ |-> 0, total_num_parts_ |-> 0,
    col_view_ |-> <<0, 0>>, col_part_view_ |-> <<0, 0>>,
    col_offset_ |-> 0, col_part_offset_ |-> 0,
    max_cols_ |-> 0, num_cols_ |-> 0, num_col_parts_ |-> 0 ]

\* a faulty variant of the absorb test: a partition that exactly fills the window is refused
WindowOverflows_off_by_one(s, view0, view1, next_part_size) ==
  (view1 + next_part_size) >= view0 + s.max_cols_

\* a faulty variant of the absorb test: the capacity is tested before the partition is added
WindowOverflows_late(s, view0, view1, next_part_size) ==
  view1 > view0 + s.max_cols_

\* the test that ends the absorb loop
WindowOverflows(s, view0, view1, next_part_size) ==
  (view1 + next_part_size) > view0 + s.max_cols_

\* "Fit as many partitions as we can into max_cols_": the loop over i, giving
\* the new <<std::get<1>(col_view_), std::get<1>(col_part_view_)>>
RECURSIVE Absorb(_, _, _, _, _)
Absorb(s, i, view0, view1, part1) ==
  IF i >= s.total_num_parts_ THEN <<view1, part1>>
  ELSE IF WindowOverflows(s, view0, view1, PartSize(s, i)) THEN <<view1, part1>>
       ELSE Absorb(s, i + 1, view0, view1 + PartSize(s, i), i + 1)

\* the column ranges added to the subarray for positions [j, last) of parts_,
\* as the columns they cover, in the order the ranges are added
RECURSIVE RangeCols(_, _, _)
RangeCols(s, j, last) ==
  IF j >= last THEN <<>>
  ELSE LET start == At(s.indices_, At(s.parts_, j))
           stop == At(s.indices_, At(s.parts_, j) + 1)
       IN [c \in 1..(stop - start) |-> start + c - 1] \o RangeCols(s, j + 1, last)

\* a read of n cells into the front of a buffer
Overwrite(buf, new) ==
  [i \in 1..Len(buf) |-> IF i <= Len(new) THEN new[i] ELSE buf[i]]

\* a faulty variant of the ids read: the ids of the columns one position further
ReadIds_shifted(ids_array, cols) ==
  [i \in 1..Len(cols) |-> At(ids_array, (cols[i] + 1) % Len(ids_array))]

\* the ids query: the cells of the ids array at the requested columns
ReadIds(ids_array, cols) == [i \in 1..Len(cols) |-> At(ids_array, cols[i])]

\* a faulty variant of the assignment: col_offset_ keeps its previous value
NewColOffset_stale(view, previous) == previous

\* col_offset_ = std::get<0>(col_view_)
NewColOffset(view, previous) == view[1]

\* a faulty variant of the test: a window of partitions without columns passes
InvalidPartitioning_one_sided(ncols, nparts) == ncols # 0 /\ nparts = 0

\* the test that makes advance throw "Invalid partitioning"
InvalidPartitioning(ncols, nparts) ==
  (ncols = 0 /\ nparts # 0) \/ (ncols # 0 /\ nparts = 0)

\* advance(): <<the object afterwards, "true" | "false" | "throw">>
advance(s, ids_array) ==
  LET view0 == s.col_view_[2]
      part0 == s.col_part_view_[2]
      got == Absorb(s, part0, view0, view0, part0)
      view1 == got[1]
      part1 == got[2]
      cur == [s EXCEPT !.col_view_ = <<view0, view1>>,
                       !.col_part_view_ = <<part0, part1>>,
                       !.num_cols_ = view1 - view0,
                       !.col_offset_ = NewColOffset(<<view0, view1>>, s.col_offset_),
                       !.num_col_parts_ = part1 - part0,
                       !.col_part_offset_ = part0]
      cols == RangeCols(cur, part0, part1)
  IN IF InvalidPartitioning(cur.num_cols_, cur.num_col_parts_)
     THEN <<cur, "throw">>                       \* "Invalid partitioning"
     ELSE IF cur.num_cols_ = 0 THEN <<cur, "false">>
     ELSE IF Len(cols) # view1 - view0 THEN <<cur, "throw">>  \* "Column count mismatch"
     ELSE <<[cur EXCEPT !.data_ = Overwrite(cur.data_, cols),
                        !.ids_ = Overwrite(cur.ids_, ReadIds(ids_array, cols))],
            "true">>

\* the repair of the last entry of indices_ made by the constructor
RepairLast(ind, num_array_cols) ==
  IF Len(ind) >= 2 /\ ind[Len(ind)] = ind[Len(ind) - 1]
  THEN [ind EXCEPT ![Len(ind)] = num_array_cols]
  ELSE ind

IndicesInvalid(ind, num_array_cols) ==
  Len(ind) >= 2 /\ ind[Len(ind)] = ind[Len(ind) - 1] /\ ind[Len(ind)] > num_array_cols

\* total_max_cols: the sum of the sizes of the active partitions
TotalMaxCols(ind, parts) ==
  SumSeq([i \in 1..Len(parts) |-> At(ind, parts[i] + 1) - At(ind, parts[i])])

\* a faulty variant of the capacity rule: upper_bound is taken even when it is 0
MaxCols_no_zero_case(upper, total_max_cols) ==
  IF upper > total_max_cols THEN total_max_cols ELSE upper

\* max_cols_ as the constructor sets it
MaxCols(upper, total_max_cols) ==
  IF upper = 0 \/ upper > total_max_cols THEN total_max_cols ELSE upper

\* tdbPartitionedMatrix(uri, in_indices, in_parts, ids_uri, upper_bound, nthreads):
\* <<the object, "true" | "false" | "throw">>, the last being the outcome of the
\* advance() the constructor ends with (or of its "Indices are not valid")
construct(in_indices, in_parts, upper, num_array_cols, ids_array) ==
  LET ind == RepairLast(in_indices, num_array_cols)
      total == TotalMaxCols(ind, in_parts)
      cap == MaxCols(upper, total)
      s0 == [NoStreamer EXCEPT !.built = TRUE,
                               !.indices_ = ind,
                               !.parts_ = in_parts,
                               !.total_num_parts_ = Len(in_parts),
                               !.num_array_cols_ = num_array_cols,
                               !.max_cols_ = cap,
                               !.ids_ = [i \in 1..cap |-> 0],
                               !.data_ = [i \in 1..cap |-> -1]]
  IN IF IndicesInvalid(in_indices, num_array_cols)
     THEN <<[NoStreamer EXCEPT !.indices_ = in_indices, !.parts_ = in_parts], "throw">>
     ELSE advance(s0, ids_array)

\* accessors
num_col_parts(s) == s.col_part_view_[2] - s.col_part_view_[1]
col_part_offset(s) == s.col_part_offset_
col_offset(s) == s.col_offset_
\* Matrix::num_cols() of the base class, whose extents the constructor sets
\* to (dimension, max_cols_)
num_cols(s) == s.max_cols_
ids(s) == s.ids_

----------------------------------------------------------------------------
(* Values of the variables a specification does not use                    *)

HeapIdle ==
  /\ hpc = "off" /\ hk = 0 /\ hcmp = "less"
  /\ hs = <<>> /\ single = <<>> /\ fed = <<>>

QueryInputsIdle ==
  /\ centroids = <<>> /\ q = <<>> /\ nprobe = 0 /\ k_nn = 0 /\ nthreads = 0
  /\ top_centroids = <<>>

StreamerIdle ==
  /\ sm = NoStreamer /\ ret = "none" /\ active = <<>> /\ served = <<>>

NoResult == [heaps |-> <<>>, top_k |-> <<>>]

NoFinite ==
  [ min_scores |-> <<>>, new_indices |-> <<>>, heaps |-> <<>>, top_k |-> <<>> ]

\* no task launched: futs is empty
NoWorkers == [st |-> <<>>, p |-> <<>>, n |-> 0, err |-> 0]

\* no index under training
NoTraining == [on |-> FALSE]

QueryIdle == inf = NoResult /\ fin = NoFinite /\ wk = NoWorkers /\ km = NoTraining

\* indices vector of partitions with the given sizes
RECURSIVE IndicesOf(_)
IndicesOf(sizes) ==
  IF sizes = <<>> THEN <<0>>
  ELSE LET pre == IndicesOf(SubSeq(sizes, 1, Len(sizes) - 1))
       IN Append(pre, pre[Len(pre)] + sizes[Len(sizes)])

\* the elements of a set of naturals, ascending (std::set iteration order)
RECURSIVE SetToSeq(_)
SetToSeq(S) ==
  IF S = {} THEN <<>>
  ELSE LET m == CHOOSE x \in S : \A y \in S : x <= y
       IN <<m>> \o SetToSeq(S \ {m})

----------------------------------------------------------------------------
(* The streamer on its own: construction, then advance calls               *)

\* ids array of N columns whose ids differ from the column numbers
ReversedIds(N) == [c \in 1..N |-> N - c]

StreamerFamily ==
  \E sizes \in [1..SParts -> 0..SMaxSize], A \in SUBSET (0..(SParts - 1)),
     ub \in 0..SMaxUpper :
    /\ indices = IndicesOf(sizes)
    /\ active = SetToSeq(A)
    /\ upper_bound = ub

\* the streamer scenario of the specification's section 8
StreamerScenario ==
  /\ indices = <<0, 3, 3, 7, 10>>
  /\ active = <<0, 2, 3>>
  /\ upper_bound = 4

InitStreamer ==
  /\ HeapIdle /\ QueryInputsIdle /\ QueryIdle
  /\ StreamerFamily \/ StreamerScenario
  /\ db = [c \in 1..indices[Len(indices)] |-> <<0>>]
  /\ shuffled_ids = ReversedIds(indices[Len(indices)])
  /\ sm = NoStreamer /\ ret = "none" /\ served = <<>>
  /\ pc = "s_new"

\* the window the object shows, when the last advance loaded one
Window(s) == <<s.col_part_view_[1], s.col_part_view_[2]>>

SConstruct ==
  /\ pc = "s_new"
  /\ LET r == construct(indices, active, upper_bound, Len(db), shuffled_ids)
     IN /\ sm' = r[1]
        /\ ret' = r[2]
        /\ served' = IF r[2] = "true" THEN <<Window(r[1])>> ELSE <<>>
        /\ pc' = IF r[2] = "throw" THEN "s_dead" ELSE "s_live"
  /\ UNCHANGED <<xvars, hvars, ivars, active, inf, fin>>

SAdvance ==
  /\ pc = "s_live"
  /\ LET r == advance(sm, shuffled_ids)
     IN /\ sm' = r[1]
        /\ ret' = r[2]
        /\ served' = IF r[2] = "true" THEN Append(served, Window(r[1])) ELSE served
        /\ pc' = IF r[2] = "throw" THEN "s_dead" ELSE "s_live"
  /\ UNCHANGED <<xvars, hvars, ivars, active, inf, fin>>

NextStreamer == SConstruct \/ SAdvance

SpecStreamer == InitStreamer /\ [][NextStreamer]_vars

\* positions of parts_ that some window has held
ServedPositions == UNION {(served[w][1])..(served[w][2] - 1) : w \in 1..Len(served)}

AllPositions == 0..(sm.total_num_parts_ - 1)

\* columns [indices[p], indices[p+1]) of partition p of the stored arrays
PartitionCols(p) ==
  [c \in 1..(At(indices, p + 1) - At(indices, p)) |-> At(indices, p) + c - 1]

\* columns of the active partitions at positions [a, b) of the active list, in order
WindowCols(a, b) == Concat([i \in 1..(b - a) |-> PartitionCols(At(active, a + i - 1))])

----------------------------------------------------------------------------
(* Claims about the streamer, checked under SpecStreamer                   *)

Advanced == pc \in {"s_live", "s_dead"}

\* C2: advance returns true whenever it loaded at least one partition, and
\* returns false only when every active partition has been served in some
\* earlier window.
C2_ReturnTellsServed ==
  Advanced =>
    /\ (sm.built /\ sm.num_cols_ # 0) => ret = "true"
    /\ ret = "false" => ServedPositions = AllPositions

\* C3: when an active partition has more columns than the window capacity, the
\* streamer admits it whole or fails with an error; the stream never ends
\* (advance returning false) with that partition unserved.
C3_OversizeAdmittedOrRejected ==
  (Advanced /\ ret = "false") =>
    \A i \in AllPositions \ ServedPositions : PartSize(sm, i) <= sm.max_cols_

\* C5: in every state after construction and after any number of advance
\* calls the window consists of whole partitions of the active list: the
\* buffer holds every column of each resident partition and no other column,
\* no partition is in two windows, and the window has at most max_cols_ columns.
C5_WholePartitions ==
  (Advanced /\ sm.built) =>
    LET a == sm.col_part_view_[1]
        b == sm.col_part_view_[2]
    IN /\ 0 <= a /\ a <= b /\ b <= Len(active)
       /\ sm.num_cols_ = Len(WindowCols(a, b))
       /\ sm.num_cols_ <= sm.max_cols_
       /\ sm.num_cols_ <= Len(sm.data_)
       /\ ret = "true" =>
            /\ SubSeq(sm.data_, 1, sm.num_cols_) = WindowCols(a, b)
            /\ \A i \in a..(b - 1) :
                 \A c \in At(indices, At(active, i))..(At(indices, At(active, i) + 1) - 1) :
                   \E x \in 1..sm.num_cols_ : sm.data_[x] = c
       /\ \A v, w \in 1..Len(served) :
            v < w => served[v][2] <= served[w][1]

C5_Witness ==
  /\ Advanced /\ ret = "true"
  /\ Len(served) = 2
  /\ sm.col_part_view_[2] - sm.col_part_view_[1] = 2
  /\ sm.num_cols_ = sm.max_cols_
  /\ sm.col_part_view_[2] = Len(active)

\* C6: each advance loads the maximal run of consecutive not yet served
\* active partitions that fits in the window capacity, in the order of the
\* active list, and positions [0, window columns) of the ids buffer hold the
\* shuffled-ids slices of those partitions in the order of the vector
\* columns; indices = [0,3,3,7,10], active = [0,2,3], upper_bound = 4 gives
\* the windows {0}, {2}, {3} and then false.
C6_GreedyWindows ==
  (Advanced /\ sm.built) =>
    LET a == sm.col_part_view_[1]
        b == sm.col_part_view_[2]
    IN /\ \/ b = sm.total_num_parts_
          \/ Len(WindowCols(a, b)) + PartSize(sm, b) > sm.max_cols_
       /\ \A w \in 1..Len(served) :
            served[w][1] = (IF w = 1 THEN 0 ELSE served[w - 1][2])
       /\ ret = "true" =>
            /\ served[Len(served)] = <<a, b>>
            /\ SubSeq(sm.ids_, 1, sm.num_cols_) =
                 Concat([i \in 1..(b - a) |->
                   SubSeq(shuffled_ids, At(indices, At(active, a + i - 1)) + 1,
                          At(indices, At(active, a + i - 1) + 1))])
            /\ \A x \in 1..sm.num_cols_ :
                 sm.ids_[x] = At(shuffled_ids, sm.data_[x])
       /\ (StreamerScenario /\ ret = "false") =>
            served = << <<0, 1>>, <<1, 2>>, <<2, 3>> >>

C6_Witness ==
  /\ StreamerScenario /\ ret = "false"
  /\ served = << <<0, 1>>, <<1, 2>>, <<2, 3>> >>
  /\ sm.ids_ = <<2, 1, 0, 3>>

----------------------------------------------------------------------------
(* The bounded heap on its own: the heaps of one query, one per thread,    *)
(* next to a single heap that is given every pair                          *)

\* the pairs of a list of scores; the id of a pair is its place in the feed
PairsFrom(scores, first_id) ==
  [i \in 1..Len(scores) |-> <<scores[i], first_id + i - 1>>]

ScoreLists(n) == UNION {[1..m -> 0..MaxScore] : m \in 0..n}

InitHeap ==
  /\ hpc = "new"
  /\ hk \in 1..MaxK
  /\ hcmp \in {"less", "greater"}
  /\ hs = [n \in 1..MaxThreads |-> <<>>]
  /\ single = <<>>
  /\ fed = <<>>
  /\ db = <<>> /\ shuffled_ids = <<>> /\ indices = <<>> /\ upper_bound = 0
  /\ QueryInputsIdle /\ StreamerIdle /\ QueryIdle
  /\ pc = "heap"

\* fixed_min_pair_heap a(k, {...}) and the empty heaps of the other threads
HeapConstruct ==
  /\ hpc = "new"
  /\ \E l \in ScoreLists(MaxFeed - 1) :
       /\ fed' = PairsFrom(l, 0)
       /\ single' = heap_from_list(hk, hcmp, PairsFrom(l, 0))
       /\ hs' = [hs EXCEPT ![1] = heap_from_list(hk, hcmp, PairsFrom(l, 0))]
  /\ hpc' = "open"
  /\ UNCHANGED <<xvars, hk, hcmp, ivars, svars, qvars>>

\* min_scores[n][j].insert(score, id), the same pair going to the single heap
HeapInsert ==
  /\ hpc = "open"
  /\ Len(fed) < MaxFeed
  /\ \E n \in 1..MaxThreads, x \in 0..MaxScore :
       /\ hs' = [hs EXCEPT ![n] = insert(hs[n], hk, hcmp, x, Len(fed))]
       /\ single' = insert(single, hk, hcmp, x, Len(fed))
       /\ fed' = Append(fed, <<x, Len(fed)>>)
  /\ UNCHANGED <<xvars, hpc, hk, hcmp, ivars, svars, qvars>>

\* a faulty variant of the fold: the heap of the last thread is left out
fold_skips_last(heaps, k, cmp) ==
  insert_all(heaps[1], k, cmp, Concat([n \in 1..(Len(heaps) - 2) |-> heaps[n + 1]]))

\* the merge of one query: every element of the heaps of threads 1..T-1, in
\* thread order and storage order, is inserted into the heap of thread 0
fold(heaps, k, cmp) ==
  insert_all(heaps[1], k, cmp, Concat([n \in 1..(Len(heaps) - 1) |-> heaps[n + 1]]))

HeapFold ==
  /\ hpc = "open"
  /\ hs' = [hs EXCEPT ![1] = fold(hs, hk, hcmp)]
  /\ hpc' = "folded"
  /\ UNCHANGED <<xvars, hk, hcmp, single, fed, ivars, svars, qvars>>

\* the comparison the heaps are sorted with: operator< of the tuples for the
\* default heaps, the score comparison for the std::greater heaps
SortComp(cmp) == IF cmp = "less" THEN "lex" ELSE "greater"

HeapSort ==
  /\ hpc = "folded"
  /\ hs' = [hs EXCEPT ![1] = sort_heap(hs[1], SortComp(hcmp))]
  /\ single' = sort_heap(single, SortComp(hcmp))
  /\ hpc' = "sorted"
  /\ UNCHANGED <<xvars, hk, hcmp, fed, ivars, svars, qvars>>

NextHeap == HeapConstruct \/ HeapInsert \/ HeapFold \/ HeapSort

SpecHeap == InitHeap /\ [][NextHeap]_vars

\* the k best of a list of scores, ascending: the k smallest under "less",
\* the k largest under "greater"
KBest(scores, k, cmp) ==
  LET sorted == SortInts(scores)
      n == Len(sorted)
      m == Min2(k, n)
  IN IF cmp = "less" THEN SubSeq(sorted, 1, m) ELSE SubSeq(sorted, n - m + 1, n)

PairsOf(h) == {h[i] : i \in 1..Len(h)}

\* the pairs of h are pairs that were given, each held once
HoldsGivenPairs(h, given) ==
  /\ PairsOf(h) \subseteq PairsOf(given)
  /\ Cardinality(PairsOf(h)) = Len(h)

\* h is in the order sorting gives it: scores ascending under "less",
\* descending under "greater"
InOrder(h, cmp) ==
  \A i \in 1..(Len(h) - 1) :
    IF cmp = "less" THEN h[i][1] <= h[i + 1][1] ELSE h[i][1] >= h[i + 1][1]

\* C8: a heap of capacity k never holds more than k pairs, and after any
\* sequence of pairs, given through the initializer-list constructor or
\* through insert, it holds the k best of them under its comparator, its
\* storage is a valid heap, and sorting it yields those k pairs in order.
C8_HeapHoldsKBest ==
  (hpc \in {"open", "folded", "sorted"}) =>
    /\ Len(single) <= hk
    /\ \A n \in 1..Len(hs) : Len(hs[n]) <= hk
    /\ HoldsGivenPairs(single, fed)
    /\ SortInts(Scores(single)) = KBest(Scores(fed), hk, hcmp)
    /\ hpc # "sorted" =>
         /\ is_heap(single, hcmp)
         /\ \A n \in 1..Len(hs) : is_heap(hs[n], hcmp)
    /\ hpc = "sorted" => InOrder(single, hcmp)

C8_Witness ==
  /\ hpc = "sorted" /\ hcmp = "greater"
  /\ Len(fed) = MaxFeed /\ hk < MaxFeed
  /\ \E i \in 1..Len(single) : single[i][2] >= hk
  /\ \E i \in 1..Len(fed) : fed[i] \notin PairsOf(single) /\ fed[i][2] >= hk

\* C9: folding the per-thread heaps preserves the top k: after every element
\* of the heaps of threads 1..T-1 was inserted into the heap of thread 0, that
\* heap holds the same scores as one heap of the same capacity that received
\* every candidate, and these are the k_nn smallest.
C9_FoldKeepsTopK ==
  (hpc \in {"folded", "sorted"}) =>
    /\ SortInts(Scores(hs[1])) = SortInts(Scores(single))
    /\ SortInts(Scores(hs[1])) = KBest(Scores(fed), hk, hcmp)
    /\ HoldsGivenPairs(hs[1], fed)

C9_Witness ==
  /\ hpc = "folded" /\ hcmp = "less"
  /\ Len(fed) > hk
  /\ \E n \in 2..Len(hs) : \E i \in 1..Len(hs[n]) : hs[n][i] \in PairsOf(hs[1])
  /\ \E n \in 2..Len(hs) : \E i \in 1..Len(hs[n]) : hs[n][i] \notin PairsOf(hs[1])

----------------------------------------------------------------------------
(* Scoring primitives                                                      *)

\* squared Euclidean distance of two vectors of the same dimension
L2(a, b) == SumSeq([i \in 1..Len(a) |-> (a[i] - b[i]) * (a[i] - b[i])])

\* the results qv_query_nth(centroids, q, nprobe, ...) may give for one query:
\* nprobe distinct centroids, nearest first, none farther than an omitted one
NearestLists(cents, qv, np) ==
  {t \in [1..np -> 0..(Len(cents) - 1)] :
     /\ \A a, b \in 1..np : a < b =>
          /\ t[a] # t[b]
          /\ L2(qv, At(cents, t[a])) <= L2(qv, At(cents, t[b]))
     /\ \A c \in 0..(Len(cents) - 1) :
          (\A a \in 1..np : t[a] # c) =>
            \A a \in 1..np : L2(qv, At(cents, t[a])) <= L2(qv, At(cents, c))}

TopCentroidResults(cents, qs, np) ==
  {tc \in [1..Len(qs) -> UNION {NearestLists(cents, qs[j], np) : j \in 1..Len(qs)}] :
     \A j \in 1..Len(qs) : tc[j] \in NearestLists(cents, qs[j], np)}

\* values a freshly allocated, never written cell of top_k may show
Indeterminate == {0, 9}

\* top_k column of one query: the ids of its sorted heap, the cells after
\* them keeping the content of the allocation
TopKColumn(h, k, junk) ==
  [i \in 1..k |-> IF i <= Len(h) THEN h[i][2] ELSE junk]

----------------------------------------------------------------------------
(* detail::ivf::qv_query_heap_infinite_ram                                 *)

\* the indices vector after the function's adjustment of a short vector
InfiniteIndices(ind, nlist, ncols) ==
  IF Len(ind) = nlist THEN Append(ind, ncols) ELSE ind

\* the loop over the columns [start, stop) of the resident database
RECURSIVE ScoreColumns(_, _, _, _, _)
ScoreColumns(h, k, qv, start, stop) ==
  IF start >= stop THEN h
  ELSE ScoreColumns(insert(h, k, "less", L2(qv, At(db, start)), At(shuffled_ids, start)),
                    k, qv, start + 1, stop)

\* a faulty variant of the probe: the first column of the partition is not scored
PartitionScored_skip_first(h, ind, j, c) ==
  ScoreColumns(h, k_nn, At(q, j), At(ind, c) + 1, At(ind, c + 1))

\* one probe of query j: the columns [indices[c], indices[c + 1]) of centroid c
PartitionScored(h, ind, j, c) ==
  ScoreColumns(h, k_nn, At(q, j), At(ind, c), At(ind, c + 1))

\* the loop over the probes p, p + 1, ... of query j
RECURSIVE ProbeLoop(_, _, _, _)
ProbeLoop(h, ind, j, p) ==
  IF p >= nprobe THEN h
  ELSE ProbeLoop(PartitionScored(h, ind, j, At(At(top_centroids, j), p)), ind, j, p + 1)

InfiniteHeaps ==
  LET ind == InfiniteIndices(indices, Len(centroids), Len(db))
  IN [j \in 1..Len(q) |-> sort_heap(ProbeLoop(<<>>, ind, j - 1, 0), "lex")]

QueryInfinite ==
  /\ pc = "q_new"
  /\ \E junk \in Indeterminate :
       inf' = [heaps |-> InfiniteHeaps,
               top_k |-> [j \in 1..Len(q) |-> TopKColumn(InfiniteHeaps[j], k_nn, junk)]]
  /\ pc' = "q_inf"
  /\ UNCHANGED <<xvars, hvars, ivars, svars, fin>>

----------------------------------------------------------------------------
(* detail::ivf::qv_query_heap_finite_ram                                   *)

\* the keys of active_centroids: every centroid some query probes
active_centroids ==
  {At(At(top_centroids, j), p) : j \in 0..(Len(q) - 1), p \in 0..(nprobe - 1)}

\* centroid_query.equal_range(c): the queries probing c, in insertion
\* order, one entry for each probe of c
centroid_query(c) ==
  Concat([j1 \in 1..Len(q) |->
            [x \in 1..Cardinality({p \in 1..nprobe : top_centroids[j1][p] = c}) |-> j1 - 1]])

\* the indices vector after the function's adjustment of a vector whose
\* size is not the number of centroids plus one
FiniteIndices(ind, nlist) ==
  IF Len(ind) # nlist + 1
  THEN LET r == [i \in 1..(nlist + 1) |-> IF i <= Len(ind) THEN ind[i] ELSE 0]
       IN [r EXCEPT ![nlist + 1] = r[nlist]]
  ELSE ind

RECURSIVE NewIndices(_, _)
NewIndices(ind, parts) ==
  IF parts = <<>> THEN <<0>>
  ELSE LET pre == NewIndices(ind, SubSeq(parts, 1, Len(parts) - 1))
           c == parts[Len(parts)]
       IN Append(pre, pre[Len(pre)] + At(ind, c + 1) - At(ind, c))

\* shuffled_db[kp]: the vector in column kp of the resident window
ShuffledDb(s, kp) == At(db, At(s.data_, kp))

\* the innermost loop of a worker: columns [kk, stop) scored for one query
RECURSIVE WorkerColumns(_, _, _, _, _)
WorkerColumns(h, s, qv, kk, stop) ==
  IF kk >= stop THEN h
  ELSE LET kp == kk - col_offset(s)
       IN WorkerColumns(insert(h, k_nn, "less", L2(qv, ShuffledDb(s, kp)), At(ids(s), kp)),
                        s, qv, kk + 1, stop)

\* the loop over the queries of one partition, given as a sequence js
RECURSIVE WorkerQueries(_, _, _, _, _)
WorkerQueries(row, s, js, start, stop) ==
  IF js = <<>> THEN row
  ELSE LET j == Head(js)
       IN WorkerQueries(
            [row EXCEPT ![j + 1] = WorkerColumns(row[j + 1], s, At(q, j), start, stop)],
            s, Tail(js), start, stop)

\* the body of worker n: partitions [p, last_part) of the window; row is
\* min_scores[n]
RECURSIVE Worker(_, _, _, _, _)
Worker(row, s, new_indices, p, last_part) ==
  IF p >= last_part THEN row
  ELSE LET partno == p + col_part_offset(s)
           start == At(new_indices, partno)
           stop == At(new_indices, partno + 1)
       IN Worker(WorkerQueries(row, s, centroid_query(At(active, partno)), start, stop),
                 s, new_indices, p + 1, last_part)

\* a faulty variant of parts_per_thread: the quotient rounded down
parts_per_thread_floor(s) == num_col_parts(s) \div nthreads

parts_per_thread(s) == (num_col_parts(s) + nthreads - 1) \div nthreads

\* a faulty variant of first_part: every worker leaves out the first partition of its chunk
first_part_skips(s, n) == Min2(n * parts_per_thread(s) + 1, num_col_parts(s))

first_part(s, n) == Min2(n * parts_per_thread(s), num_col_parts(s))
last_part(s, n) == Min2((n + 1) * parts_per_thread(s), num_col_parts(s))

\* min_scores after the workers of one window have been joined
WindowScored(ms, s, new_indices) ==
  [n1 \in 1..nthreads |->
     IF first_part(s, n1 - 1) # last_part(s, n1 - 1)
     THEN Worker(ms[n1], s, new_indices, first_part(s, n1 - 1), last_part(s, n1 - 1))
     ELSE ms[n1]]

\* top_centroids, the active partitions, new_indices, the streamer and the
\* empty per-thread heaps
FiniteStart ==
  /\ pc = "q_inf"
  /\ LET active_partitions == SetToSeq(active_centroids)
         ind == FiniteIndices(indices, Len(centroids))
         r == construct(ind, active_partitions, upper_bound, Len(db), shuffled_ids)
     IN /\ active' = active_partitions
        /\ sm' = r[1]
        /\ ret' = r[2]
        /\ served' = IF r[2] = "true" THEN <<Window(r[1])>> ELSE <<>>
        /\ fin' = [fin EXCEPT
                     !.new_indices = NewIndices(ind, active_partitions),
                     !.min_scores = [n1 \in 1..nthreads |-> [j \in 1..Len(q) |-> <<>>]]]
        /\ pc' = IF r[2] = "throw" THEN "q_throw" ELSE "q_loop"
  /\ UNCHANGED <<xvars, hvars, ivars, inf>>

\* one turn of the for (;;) loop: the workers score the resident window,
\* are joined, and the streamer advances
FiniteWindow ==
  /\ pc = "q_loop"
  /\ LET r == advance(sm, shuffled_ids)
     IN /\ fin' = [fin EXCEPT !.min_scores = WindowScored(fin.min_scores, sm, fin.new_indices)]
        /\ sm' = r[1]
        /\ ret' = r[2]
        /\ served' = IF r[2] = "true" THEN Append(served, Window(r[1])) ELSE served
        /\ pc' = CASE r[2] = "true" -> "q_loop"
                   [] r[2] = "false" -> "q_merge"
                   [] OTHER -> "q_throw"
  /\ UNCHANGED <<xvars, hvars, ivars, active, inf>>

\* the merge into min_scores[0][j], sort_heap and the copy into top_k
FiniteFinish ==
  /\ pc = "q_merge"
  /\ LET merged == [j \in 1..Len(q) |->
                      sort_heap(fold([n1 \in 1..nthreads |-> fin.min_scores[n1][j]],
                                     k_nn, "less"), "lex")]
     IN \E junk \in Indeterminate :
          fin' = [fin EXCEPT !.heaps = merged,
                             !.top_k = [j \in 1..Len(q) |-> TopKColumn(merged[j], k_nn, junk)]]
  /\ pc' = "q_done"
  /\ UNCHANGED <<xvars, hvars, ivars, svars, inf>>

NextQuery == QueryInfinite \/ FiniteStart \/ FiniteWindow \/ FiniteFinish

----------------------------------------------------------------------------
(* The two query functions run on one index, infinite first                *)

Vectors == {<<c>> : c \in 0..MaxCoord}

\* query parameters: nprobe, k_nn, nthreads, upper_bound and a result of
\* qv_query_nth for the centroids and queries at hand
QueryParameters ==
  /\ nprobe \in 1..NList
  /\ k_nn \in 1..MaxK
  /\ nthreads \in 1..MaxThreads
  /\ upper_bound \in 0..QMaxCols
  /\ top_centroids \in TopCentroidResults(centroids, q, nprobe)

QueryStart ==
  /\ HeapIdle /\ StreamerIdle /\ QueryIdle
  /\ pc = "q_new"

\* any partitioned database of at most QMaxCols columns, any centroids and
\* any queries
InitQuery ==
  /\ centroids \in [1..NList -> Vectors]
  /\ \E sizes \in [1..NList -> 0..QMaxCols] :
       /\ SumSeq(sizes) <= QMaxCols
       /\ indices = IndicesOf(sizes)
  /\ db \in [1..indices[Len(indices)] -> Vectors]
  /\ shuffled_ids = ReversedIds(Len(db))
  /\ \E nq \in 1..MaxQueries : q \in [1..nq -> Vectors]
  /\ QueryParameters
  /\ QueryStart

Spec == InitQuery /\ [][NextQuery]_vars

\* an index built from pairwise distinct vectors orig, each placed in the
\* partition of the centroid assign_nearest ranks first for it, the columns
\* of a partition keeping the original order; the queries are the vectors
\* themselves
InitSelf ==
  /\ centroids \in [1..NList -> Vectors]
  /\ \E n \in 1..QMaxCols : \E orig \in [1..n -> Vectors] :
       /\ \A a, b \in 1..n : a # b => orig[a] # orig[b]
       /\ q = orig
       /\ QueryParameters
       /\ LET part(j) == top_centroids[j][1]
              cols == SetToSeq({part(j) * n + (j - 1) : j \in 1..n})
          IN /\ db = [c \in 1..n |-> orig[(cols[c] % n) + 1]]
             /\ shuffled_ids = [c \in 1..n |-> cols[c] % n]
             /\ indices = IndicesOf([p \in 1..NList |->
                                       Cardinality({j \in 1..n : part(j) = p - 1})])
  /\ QueryStart

SpecSelf == InitSelf /\ [][NextQuery]_vars

----------------------------------------------------------------------------
(* Claims about the two query functions                                    *)

\* the columns of partition p of the database
ColumnsOf(p) == {c \in 0..(Len(db) - 1) : At(indices, p) <= c /\ c < At(indices, p + 1)}

\* the columns of the partitions query j (1-based) probes
Candidates(j) == UNION {ColumnsOf(top_centroids[j][p]) : p \in 1..nprobe}

Distance(j, c) == L2(q[j], At(db, c))

CandidateScores(j) ==
  LET cs == SetToSeq(Candidates(j)) IN [i \in 1..Len(cs) |-> Distance(j, cs[i])]

\* the number of rows of column j that hold a candidate
Filled(j) == Min2(k_nn, Cardinality(Candidates(j)))

ActiveColumns == UNION {ColumnsOf(c) : c \in active_centroids}

Permissive == upper_bound = 0 \/ upper_bound >= Cardinality(ActiveColumns)

\* the distances that go with a result: the scores of the sorted heaps
Distances(res, j) == Scores(res.heaps[j])

\* C7: the infinite-RAM query gives every query the k_nn smallest distances
\* among the columns of its probed partitions, ascending, each row holding
\* the id of a distinct candidate at that distance; with one probe every id
\* returned belongs to the partition of the first-ranked centroid
C7_InfiniteTopK ==
  pc # "q_new" =>
    \A j \in 1..Len(q) :
      /\ Distances(inf, j) = KBest(CandidateScores(j), k_nn, "less")
      /\ \A i \in 1..Filled(j) :
           \E c \in Candidates(j) :
             /\ inf.top_k[j][i] = At(shuffled_ids, c)
             /\ Distance(j, c) = Distances(inf, j)[i]
      /\ \A a, b \in 1..Filled(j) : a # b => inf.top_k[j][a] # inf.top_k[j][b]
      /\ nprobe = 1 =>
           \A i \in 1..Filled(j) :
             \E c \in ColumnsOf(top_centroids[j][1]) : inf.top_k[j][i] = At(shuffled_ids, c)

\* a query whose nearest partition holds two vectors at different distances,
\* probed alone with k_nn = 1 while the other partition holds a vector too
C7_Witness ==
  /\ pc = "q_inf" /\ nprobe = 1 /\ k_nn = 1
  /\ \E j \in 1..Len(q) :
       /\ Cardinality(Candidates(j)) = 2
       /\ Cardinality(ActiveColumns) < Len(db)
       /\ \A a, b \in Candidates(j) : a # b => Distance(j, a) # Distance(j, b)
       /\ \E c \in Candidates(j) :
            /\ inf.top_k[j][1] = At(shuffled_ids, c)
            /\ \A d \in Candidates(j) : Distance(j, c) <= Distance(j, d)

\* C1 as claimed: with a permissive upper_bound the finite-RAM query returns
\* the ids of the infinite-RAM query in every row that holds a candidate, and
\* the same distances
C1_FiniteEqualsInfinite ==
  (pc = "q_done" /\ Permissive) =>
    \A j \in 1..Len(q) :
      /\ Distances(fin, j) = Distances(inf, j)
      /\ \A i \in 1..Filled(j) : fin.top_k[j][i] = inf.top_k[j][i]

\* C1 amended: with a permissive upper_bound the finite-RAM query fails only
\* when every probed partition is empty, and then it always fails; when it
\* returns, every query has the distances of the infinite-RAM query, and the
\* same id in every row whose distance no other candidate of the query has
C1_EqualUpToTies ==
  Permissive =>
    /\ pc = "q_throw" => ActiveColumns = {}
    /\ pc \in {"q_loop", "q_merge", "q_done"} => ActiveColumns # {}
    /\ pc = "q_done" =>
         \A j \in 1..Len(q) :
           /\ Distances(fin, j) = Distances(inf, j)
           /\ Len(fin.heaps[j]) = Filled(j)
           /\ \A i \in 1..Filled(j) :
                Cardinality({c \in Candidates(j) : Distance(j, c) = Distances(fin, j)[i]}) = 1
                  => fin.top_k[j][i] = inf.top_k[j][i]

\* two threads, two probed partitions with one vector each at different
\* distances, a positive permissive upper_bound, and the nearer one returned
C1_Witness ==
  /\ pc = "q_done" /\ Permissive /\ upper_bound > 0
  /\ nthreads = 2 /\ Len(active) = 2 /\ k_nn = 1
  /\ \E j \in 1..Len(q) :
       /\ Cardinality(Candidates(j)) = 2
       /\ \A c \in active_centroids : ColumnsOf(c) # {}
       /\ \A a, b \in Candidates(j) : a # b => Distance(j, a) # Distance(j, b)
       /\ fin.top_k[j][1] = inf.top_k[j][1]

\* C4: whatever the upper_bound, a finite-RAM query that returns gives every
\* query the distances of the infinite-RAM query, in a matrix of the same shape
C4_IndependentOfUpperBound ==
  pc = "q_done" =>
    /\ Len(fin.top_k) = Len(inf.top_k)
    /\ \A j \in 1..Len(q) :
         /\ Len(fin.top_k[j]) = Len(inf.top_k[j])
         /\ Distances(fin, j) = Distances(inf, j)

\* C10: in a self-query the first row of every result column j holds the id
\* of vector j at distance zero, after the infinite-RAM query and after the
\* finite-RAM query
SelfFirst(res, j) ==
  /\ Len(res.heaps[j]) >= 1
  /\ res.heaps[j][1][1] = 0
  /\ res.top_k[j][1] = j - 1

C10_SelfQuery ==
  /\ pc # "q_new" => \A j \in 1..Len(q) : SelfFirst(inf, j)
  /\ pc = "q_done" => \A j \in 1..Len(q) : SelfFirst(fin, j)

\* the part of C10 about the infinite-RAM query
C10_SelfQueryInfinite ==
  pc # "q_new" => \A j \in 1..Len(q) : SelfFirst(inf, j)

\* the values found in the rows of a result that hold no candidate
UnfilledValues(res) ==
  UNION {{res.top_k[j][i] : i \in (Len(res.heaps[j]) + 1)..k_nn} : j \in 1..Len(q)}

\* C11: when a query has fewer than k_nn candidates the rows after its
\* candidates hold a defined sentinel in both query modes: all such rows of
\* the two results hold one and the same value
C11_SentinelFilled ==
  pc = "q_done" => Cardinality(UnfilledValues(inf) \cup UnfilledValues(fin)) <= 1

----------------------------------------------------------------------------
(* The finite-RAM loop with its worker tasks running concurrently          *)

\* futs at the start of a turn of the for (;;) loop, thread by thread:
\* "none" (no task), "run", "done", "failed" (ended by an exception),
\* "joined" (get() has returned)
FreshWorkers ==
  [st |-> [t \in 1..nthreads |-> "none"], p |-> [t \in 1..nthreads |-> 0],
   n |-> 0, err |-> 0]

Futs == IF wk = NoWorkers THEN FreshWorkers ELSE wk

\* a faulty variant of the worker: every task inserts into the heaps of thread 0
WorkerTurn_shared(ms, t, s, new_indices, p) ==
  [ms EXCEPT ![1] = Worker(ms[1], s, new_indices, p, p + 1)]

\* one pass of the loop over p in the task of thread t - 1: partition p of
\* the window scored into min_scores[t - 1]
WorkerTurn(ms, t, s, new_indices, p) ==
  [ms EXCEPT ![t] = Worker(ms[t], s, new_indices, p, p + 1)]

\* a faulty variant of get(): the exception of the task is dropped
Rethrows_swallowed(state) == FALSE

\* futs[n].get() rethrows the exception that ended the task
Rethrows(state) == state = "failed"

\* one pass of the loop over n that launches the tasks
TLaunch ==
  /\ pc = "q_loop"
  /\ LET w == Futs
         t == w.n + 1
         launched == first_part(sm, w.n) # last_part(sm, w.n)
     IN /\ wk' = [w EXCEPT !.st[t] = IF launched THEN "run" ELSE "none",
                           !.p[t] = first_part(sm, w.n),
                           !.n = IF t = nthreads THEN 0 ELSE t]
        /\ pc' = IF t = nthreads THEN "q_join" ELSE "q_loop"
  /\ UNCHANGED <<hvars, ivars, svars, inf, fin, km>>

\* a running task scores its next partition, or ends with an exception
TWorker ==
  /\ pc \in {"q_loop", "q_join", "q_unwind"}
  /\ wk # NoWorkers
  /\ \E t \in 1..nthreads :
       /\ wk.st[t] = "run"
       /\ \/ /\ fin' = [fin EXCEPT !.min_scores =
                          WorkerTurn(fin.min_scores, t, sm, fin.new_indices, wk.p[t])]
             /\ wk' = [wk EXCEPT !.p[t] = wk.p[t] + 1,
                                 !.st[t] = IF wk.p[t] + 1 = last_part(sm, t - 1)
                                           THEN "done" ELSE "run"]
          \/ /\ wk' = [wk EXCEPT !.st[t] = "failed"]
             /\ fin' = fin
  /\ UNCHANGED <<hvars, ivars, svars, pc, inf, km>>

\* a faulty variant of get(): it returns without waiting for the task
Ended_no_wait(state) == TRUE

\* get() returns once the task is no longer running
Ended(state) == state # "run"

\* one pass of the loop over n that joins the tasks: get() waits for the
\* task to end
TJoin ==
  /\ pc = "q_join"
  /\ wk.n < nthreads
  /\ LET t == wk.n + 1
     IN /\ Ended(wk.st[t])
        /\ IF Rethrows(wk.st[t])
           THEN /\ wk' = [wk EXCEPT !.err = t]
                /\ pc' = "q_unwind"
           ELSE /\ wk' = [wk EXCEPT !.n = t,
                                    !.st[t] = IF wk.st[t] = "done" THEN "joined" ELSE wk.st[t]]
                /\ pc' = pc
  /\ UNCHANGED <<hvars, ivars, svars, inf, fin, km>>

\* the exception leaves the function: the destructor of futs waits for the
\* tasks that are still running
TUnwind ==
  /\ pc = "q_unwind"
  /\ \A t \in 1..nthreads : wk.st[t] # "run"
  /\ pc' = "q_throw"
  /\ UNCHANGED <<hvars, ivars, svars, inf, fin, xvars>>

\* every task joined: the streamer advances
TAdvance ==
  /\ pc = "q_join"
  /\ wk.n = nthreads
  /\ LET r == advance(sm, shuffled_ids)
     IN /\ sm' = r[1]
        /\ ret' = r[2]
        /\ served' = IF r[2] = "true" THEN Append(served, Window(r[1])) ELSE served
        /\ pc' = CASE r[2] = "true" -> "q_loop"
                   [] r[2] = "false" -> "q_merge"
                   [] OTHER -> "q_throw"
        /\ wk' = IF r[2] = "true" THEN NoWorkers ELSE wk
  /\ UNCHANGED <<hvars, ivars, active, inf, fin, km>>

NextThreads ==
  FiniteStart \/ TLaunch \/ TWorker \/ TJoin \/ TUnwind \/ TAdvance \/ FiniteFinish

\* the inputs of the query specification, the finite-RAM query about to start
InitThreads ==
  /\ centroids \in [1..NList -> Vectors]
  /\ \E sizes \in [1..NList -> 0..QMaxCols] :
       /\ SumSeq(sizes) <= QMaxCols
       /\ indices = IndicesOf(sizes)
  /\ db \in [1..indices[Len(indices)] -> Vectors]
  /\ shuffled_ids = ReversedIds(Len(db))
  /\ \E nq \in 1..MaxQueries : q \in [1..nq -> Vectors]
  /\ QueryParameters
  /\ HeapIdle /\ StreamerIdle /\ QueryIdle
  /\ pc = "q_inf"

SpecThreads == InitThreads /\ [][NextThreads]_vars

----------------------------------------------------------------------------
(* Claims about the concurrent loop                                        *)

\* min_scores when the tasks of every window run one after another, in
\* thread order, from the streamer s on
RECURSIVE StreamAll(_, _, _)
StreamAll(ms, s, new_indices) ==
  LET scored == WindowScored(ms, s, new_indices)
      r == advance(s, shuffled_ids)
  IN IF r[2] = "true" THEN StreamAll(scored, r[1], new_indices) ELSE scored

\* the merged heap of query j in that run
SequentialHeap(j) ==
  LET parts == SetToSeq(active_centroids)
      ind == FiniteIndices(indices, Len(centroids))
      s0 == construct(ind, parts, upper_bound, Len(db), shuffled_ids)[1]
      ms == StreamAll([t \in 1..nthreads |-> [i \in 1..Len(q) |-> <<>>]], s0,
                      NewIndices(ind, parts))
  IN fold([t \in 1..nthreads |-> ms[t][j]], k_nn, "less")

IdSet(h) == {h[i][2] : i \in 1..Len(h)}

\* C12: whatever the interleaving of the tasks, a finite-RAM query that
\* returns gives every query the set of ids that the run with the tasks
\* executed one after another gives it, in the rows that hold a candidate
C12_SameIdSets ==
  pc = "q_done" =>
    \A j \in 1..Len(q) :
      /\ IdSet(fin.heaps[j]) = IdSet(SequentialHeap(j))
      /\ {fin.top_k[j][i] : i \in 1..Len(fin.heaps[j])} = IdSet(SequentialHeap(j))

\* two tasks ran in the last window, on two vectors at the same distance of
\* a query that keeps one
C12_Witness ==
  /\ pc = "q_done" /\ nthreads = 2 /\ k_nn = 1
  /\ wk # NoWorkers /\ \A t \in 1..2 : wk.st[t] = "joined"
  /\ \E j \in 1..Len(q) :
       /\ Cardinality(Candidates(j)) = 2
       /\ \A a, b \in Candidates(j) : Distance(j, a) = Distance(j, b)
       /\ Len(fin.heaps[j]) = 1

\* the task of thread t - 1 makes a pass of its loop in this step
Stepped(t) ==
  /\ wk # NoWorkers /\ wk' # NoWorkers
  /\ wk.st[t] = "run" /\ wk'.p[t] = wk.p[t] + 1

\* no task is running: none was launched, or every one has been joined
AllJoined == wk = NoWorkers \/ \A t \in 1..nthreads : wk.st[t] \in {"none", "joined"}

\* C13: in the finite-RAM loop a heap of min_scores changes only in a step
\* of a task, and the task of thread n changes only min_scores[n]; the merge
\* into min_scores[0] and advance, which rewrites the buffers and cursors of
\* the streamer, happen only when every task of the window has been joined
C13_SingleOwner ==
  [][ /\ (fin.min_scores # <<>> /\ fin'.min_scores # fin.min_scores) =>
           \E t \in 1..nthreads :
             /\ Stepped(t)
             /\ \A m \in (1..nthreads) \ {t} : fin'.min_scores[m] = fin.min_scores[m]
      /\ fin'.heaps # fin.heaps => AllJoined
      /\ (sm.built /\ sm' # sm) => AllJoined
    ]_vars

\* the task of thread 1 has filled a heap while the task of thread 0, launched
\* before it, has not yet made a step
C13_Witness ==
  /\ pc = "q_join" /\ nthreads = 2
  /\ wk.st[1] = "run" /\ wk.p[1] = first_part(sm, 0)
  /\ wk.st[2] = "done"
  /\ \E j \in 1..Len(q) : fin.min_scores[2][j] # <<>>

SomeTaskFailed == wk # NoWorkers /\ \E t \in 1..nthreads : wk.st[t] = "failed"

\* C14: an exception of a task or of advance reaches the caller and no top-k
\* result is returned: a query in which a task failed or advance threw never
\* gets to the merge, the exception rethrown at the join is that of the first
\* failed task in join order, and a query that ended by an exception has
\* produced no result matrix
C14_ErrorsSurface ==
  /\ pc \in {"q_merge", "q_done"} => (~SomeTaskFailed /\ ret # "throw")
  /\ ret = "throw" => pc = "q_throw"
  /\ (pc \in {"q_unwind", "q_throw"} /\ wk # NoWorkers /\ wk.err # 0) =>
       /\ wk.st[wk.err] = "failed"
       /\ \A m \in 1..(wk.err - 1) : wk.st[m] # "failed"
  /\ pc \in {"q_unwind", "q_throw"} => (fin.top_k = <<>> /\ fin.heaps = <<>>)
  /\ pc = "q_throw" => (ret = "throw" \/ SomeTaskFailed)

\* both tasks of a window have failed and the caller got the exception of
\* the first
C14_Witness ==
  /\ pc = "q_throw" /\ nthreads = 2 /\ wk # NoWorkers
  /\ wk.err = 1 /\ wk.st[2] = "failed"

----------------------------------------------------------------------------
(* The two query functions handed a malformed indices vector               *)

\* indices is not the vector of a partitioned database of Len(db) columns
Malformed == Len(indices) # Len(centroids) + 1 \/ indices[Len(indices)] # Len(db)

\* the inputs of the query specification, except that the indices vector
\* lacks its last entry or ends below the number of columns
InitMalformed ==
  /\ centroids \in [1..NList -> Vectors]
  /\ \E sizes \in [1..NList -> 0..QMaxCols] :
       /\ SumSeq(sizes) <= QMaxCols
       /\ LET good == IndicesOf(sizes)
          IN /\ db \in [1..good[NList + 1] -> Vectors]
             /\ \/ indices = SubSeq(good, 1, NList)
                \/ \E v \in good[NList]..(good[NList + 1] - 1) :
                     indices = [good EXCEPT ![NList + 1] = v]
  /\ shuffled_ids = ReversedIds(Len(db))
  /\ \E nq \in 1..MaxQueries : q \in [1..nq -> Vectors]
  /\ QueryParameters
  /\ QueryStart

SpecMalformed == InitMalformed /\ [][NextQuery]_vars

\* C15: a malformed indices vector is rejected by both query functions and
\* by the streamer constructor: no query returns a result computed from it
\* and no streamer is built from it
C15_MalformedRejected ==
  Malformed =>
    /\ inf = NoResult
    /\ ~sm.built
    /\ fin.top_k = <<>>

----------------------------------------------------------------------------
(* Further claims about the streamer                                       *)

\* C16 as claimed: after construction and after every advance call that
\* returns, num_col_parts() is nonzero exactly when num_cols() is
C16_AccessorsAgree ==
  (Advanced /\ sm.built /\ ret \in {"true", "false"}) =>
    ((num_col_parts(sm) # 0) <=> (num_cols(sm) # 0))

\* C16 amended: after construction and after every advance call that returns,
\* num_col_parts() is nonzero exactly when the member num_cols_, the column
\* count of the window, is; a window with partitions and no columns, or with
\* columns and no partitions, makes advance throw; the accessor num_cols()
\* is the capacity max_cols_ of the buffer, whatever the window
C16_MembersAgree ==
  (Advanced /\ sm.built) =>
    /\ ret \in {"true", "false"} => ((num_col_parts(sm) # 0) <=> (sm.num_cols_ # 0))
    /\ ((num_col_parts(sm) # 0) # (sm.num_cols_ # 0)) => ret = "throw"
    /\ ret = "throw" => (num_col_parts(sm) # 0 /\ sm.num_cols_ = 0)
    /\ sm.num_cols_ = sm.col_view_[2] - sm.col_view_[1]
    /\ num_cols(sm) = sm.max_cols_

\* the terminating advance after two windows: no partition in the window,
\* and num_cols() still the capacity
C16_Witness ==
  /\ Advanced /\ ret = "false" /\ Len(served) = 2
  /\ num_col_parts(sm) = 0 /\ sm.num_cols_ = 0 /\ num_cols(sm) > 0

Cursors(s) == <<s.col_view_, s.col_part_view_, s.col_offset_, s.col_part_offset_>>

\* C17 as claimed: the advance call that returns false leaves the cursors as
\* they were before the call, and afterwards num_col_parts() is 0
C17_FalseKeepsCursors ==
  [][ (pc = "s_live" /\ ret' = "false") =>
        (Cursors(sm') = Cursors(sm) /\ num_col_parts(sm') = 0) ]_vars

\* C17 amended: the advance call that returns false leaves the ends of the
\* column view and of the partition view, and both buffers, as they were;
\* it moves the begins of the two views, col_offset() and col_part_offset()
\* up to those ends, so that afterwards num_col_parts() is 0; a second such
\* call changes nothing
C17_FalseEmptiesWindow ==
  [][ (pc = "s_live" /\ ret' = "false") =>
        /\ sm'.col_view_ = <<sm.col_view_[2], sm.col_view_[2]>>
        /\ sm'.col_part_view_ = <<sm.col_part_view_[2], sm.col_part_view_[2]>>
        /\ col_offset(sm') = sm.col_view_[2]
        /\ col_part_offset(sm') = sm.col_part_view_[2]
        /\ num_col_parts(sm') = 0
        /\ sm'.data_ = sm.data_ /\ sm'.ids_ = sm.ids_
        /\ ret = "false" => sm' = sm ]_vars

\* after two windows the terminating advance has moved col_offset() and
\* col_part_offset() to the end of the stream
C17_Witness ==
  /\ Advanced /\ ret = "false" /\ Len(served) = 2
  /\ col_part_offset(sm) = sm.total_num_parts_
  /\ col_offset(sm) > served[2][1]
  /\ sm.col_part_view_ = <<sm.total_num_parts_, sm.total_num_parts_>>

----------------------------------------------------------------------------
(* kmeans_index: training vectors and centroids of dimension 1             *)

RECURSIVE Factorial(_)
Factorial(n) == IF n <= 1 THEN 1 ELSE n * Factorial(n - 1)

\* a centroid coordinate is held as its numerator over Den; every degree
\* 1..MaxTrainCols divides Den, so that centroid[k] /= degrees[j] is exact
Den == Factorial(MaxTrainCols)

\* tol, as <<numerator, denominator>>: 0 and the default 0.000025
Tols == {<<0, 1>>, <<1, 40000>>}

InitKinds == {"none", "kmeanspp", "random"}

\* sum_of_squares of two coordinates held over the same denominator
sum_of_squares(a, b) == (a - b) * (a - b)

\* the element of a set of one element
Only(S) == CHOOSE x \in S : TRUE

MaxOf(s) == IF s = <<>> THEN 0
            ELSE CHOOSE m \in {s[i] : i \in 1..Len(s)} : \A i \in 1..Len(s) : s[i] <= m

\* position (1-based) of the centroid nearest to v, the first of equals
Nearest(c, v) ==
  IF c = <<>> THEN 1
  ELSE CHOOSE j \in 1..Len(c) :
         \A l \in 1..Len(c) :
           \/ sum_of_squares(v * Den, c[j]) < sum_of_squares(v * Den, c[l])
           \/ sum_of_squares(v * Den, c[j]) = sum_of_squares(v * Den, c[l]) /\ j <= l

\* detail::flat::qv_partition_with_scores: per training vector <<score, part>>
qv_partition_with_scores(c, ts) ==
  [i \in 1..Len(ts) |->
     IF c = <<>> THEN <<0, 0>>
     ELSE <<sum_of_squares(ts[i] * Den, c[Nearest(c, ts[i])]), Nearest(c, ts[i]) - 1>>]

\* ceil(reassign_ratio_ * n), reassign_ratio_ = 0.075 = 3/40
CeilRatio(n) == (3 * n + 39) \div 40

HeapSize(nl) == CeilRatio(nl) + 5

\* what a read of high_scores[i] past the heap's pairs can give: the call
\* ends abnormally, or the pair names a training vector ("id"), or it names
\* no training vector and the reads of training_set and parts it leads to
\* give any coordinate and any partition ("wild")
Garbage(ts, nl) ==
  {[kind |-> "abort", id |-> 0, vec |-> 0, part |-> 0]}
    \cup {[kind |-> "id", id |-> i, vec |-> 0, part |-> 0] : i \in 0..(Len(ts) - 1)}
    \cup {[kind |-> "wild", id |-> Len(ts), vec |-> v, part |-> pt] :
            v \in 0..MaxCoord, pt \in 0..(nl - 1)}

NoGarbage == [kind |-> "abort", id |-> 0, vec |-> 0, part |-> 0]

\* the reassignment loop from position i on; st holds new_centroids (as sums),
\* degrees, the moves made, whether high_scores was read past its pairs, and
\* whether the call ended abnormally. A degree below 0 stands for the size_t
\* value 2^64 + degree.
RECURSIVE Reassign(_, _, _, _, _, _, _, _)
Reassign(i, st, low_degrees, high_scores, lower_degree_bound, ts, parts, g) ==
  IF \/ st.abort
     \/ i >= Len(low_degrees)
     \/ At(low_degrees, i)[1] > lower_degree_bound
  THEN st
  ELSE LET zero_part == At(low_degrees, i)[2]
           inside == i < Len(high_scores)
           gi == At(g, i)
       IN IF ~inside /\ gi.kind = "abort"
          THEN [st EXCEPT !.abort = TRUE, !.oob = TRUE]
          ELSE LET high_vector_id ==
                     IF inside THEN At(high_scores, i)[2] ELSE gi.id
                   known == high_vector_id < Len(ts)
                   high_vector == IF known THEN At(ts, high_vector_id) ELSE gi.vec
                   from == IF known THEN At(parts, high_vector_id) ELSE gi.part
                   copied == [st.sums EXCEPT ![zero_part + 1] = high_vector]
                   sums == [copied EXCEPT ![from + 1] = @ - high_vector]
                   raised == [st.degrees EXCEPT ![zero_part + 1] = @ + 1]
                   degrees == [raised EXCEPT ![from + 1] = @ - 1]
                   next == [ sums |-> sums, degrees |-> degrees,
                             moved |-> Append(st.moved,
                                              [ part |-> zero_part, id |-> high_vector_id,
                                                vec |-> high_vector, from |-> from ]),
                             oob |-> st.oob \/ ~inside, abort |-> FALSE ]
               IN Only({ Reassign(i + 1, n, low_degrees, high_scores,
                                  lower_degree_bound, ts, parts, g) : n \in {next} })

\* centroid[k] /= degrees[j], as a numerator over Den; a degree that wrapped
\* around gives a quotient below 2^-60, held as 0
Quot(sum, degree) == IF degree < 0 THEN 0 ELSE (sum * Den) \div degree

\* if (iter != max_iter_ - 1)
Reassigns(iter, max_iter) == iter # max_iter - 1

\* the sums and degrees accumulated over the training vectors
Accumulated(ts, nl, ps) ==
  LET sums0 == [j \in 1..nl |->
                  SumSeq([i \in 1..Len(ts) |-> IF ps[i][2] = j - 1 THEN ts[i] ELSE 0])]
      degrees0 == [j \in 1..nl |->
                     SumSeq([i \in 1..Len(ts) |-> IF ps[i][2] = j - 1 THEN 1 ELSE 0])]
  IN [ sums |-> sums0, degrees |-> degrees0, moved |-> <<>>,
       oob |-> FALSE, abort |-> FALSE ]

\* the two heaps, their sorting and the reassignment loop
Reassigned(ts, nl, ps, start, g) ==
  LET heap_size == HeapSize(nl)
      high_scores == insert_all(<<>>, heap_size, "greater",
                                [i \in 1..Len(ts) |-> <<ps[i][1], i - 1>>])
      low_degrees == insert_all(<<>>, heap_size, "less",
                                [j \in 1..nl |-> <<start.degrees[j], j - 1>>])
      max_degree == MaxOf(start.degrees)
      lower_degree_bound == CeilRatio(max_degree)
  IN Only({ Reassign(0, start, low, high, lower_degree_bound, ts,
                     [i \in 1..Len(ts) |-> ps[i][2]], g) :
              low \in {sort_heap(low_degrees, "lex")},
              high \in {sort_heap(high_scores, "greater")} })

\* the division by the degrees, max_diff and total_weight
Finalized(c, nl, ps, st) ==
  LET new_centroids == [j \in 1..nl |->
                          IF st.degrees[j] # 0
                          THEN Quot(st.sums[j], st.degrees[j])
                          ELSE st.sums[j] * Den]
  IN Only({ [ centroids |-> nc, degrees |-> st.degrees,
              parts |-> [i \in 1..Len(ps) |-> ps[i][2]],
              moved |-> st.moved, oob |-> st.oob, abort |-> st.abort,
              max_diff |-> MaxOf([j \in 1..nl |-> sum_of_squares(c[j], nc[j])]),
              total_weight |-> SumSeq([j \in 1..nl |->
                                         IF st.degrees[j] # 0 THEN nc[j] * nc[j] ELSE 0]),
              low |-> Min2(nl, HeapSize(nl)), high |-> Min2(Len(ps), HeapSize(nl)) ] :
            nc \in {new_centroids} })

\* one iteration of the loop of train_no_init, up to and including
\* centroids_.swap(new_centroids)
Lloyd(c, ts, nl, reassign, g) ==
  Only({ Only({ Only({ Finalized(c, nl, ps, st) :
                         st \in {IF reassign THEN Reassigned(ts, nl, ps, start, g)
                                 ELSE start} }) :
                  start \in {Accumulated(ts, nl, ps)} }) :
           ps \in {qv_partition_with_scores(c, ts)} })

\* whether the reassignment loop of this iteration reads high_scores past
\* its pairs, whatever such a read gives
ReadsPast(c, ts, nl, reassign) ==
  Lloyd(c, ts, nl, reassign, [i \in 1..nl |-> NoGarbage]).oob

\* if (max_diff < tol_ * total_weight)
Converged(r, tol) == r.max_diff * tol[2] < tol[1] * r.total_weight

\* a faulty variant of the loop condition: one iteration more
LoopContinues_inclusive(iter, max_iter) == iter <= max_iter

\* for (size_t iter = 0; iter < max_iter_; ++iter)
LoopContinues(iter, max_iter) == iter < max_iter

\* the index sequences kmeans_pp can draw once `chosen` are drawn and
\* `distances` holds the weights: each step lowers every weight to the
\* distance to the newest centroid, draws an index of positive weight (any
\* index when no weight is positive) and sets its weight to 0
RECURSIVE PPDraws(_, _, _, _)
PPDraws(ts, chosen, distances, nl) ==
  IF Len(chosen) >= nl THEN {chosen}
  ELSE LET newest == At(ts, chosen[Len(chosen)])
           lowered == [j \in 1..Len(ts) |->
                         Min2(distances[j], sum_of_squares(ts[j], newest))]
           positive == {j \in 1..Len(ts) : lowered[j] > 0}
           drawn == IF positive = {} THEN 1..Len(ts) ELSE positive
       IN UNION { PPDraws(ts, Append(chosen, j - 1), [lowered EXCEPT ![j] = 0], nl) :
                    j \in drawn }

\* std::numeric_limits<double>::max() / 8192: above every distance
Far == (MaxCoord + 1) * (MaxCoord + 1)

kmeans_pp(ts, nl) ==
  UNION { PPDraws(ts, <<choice>>, [j \in 1..Len(ts) |-> Far], nl) :
            choice \in 0..(Len(ts) - 1) }

\* the distances kmeans_pp holds at the moment it samples centroid i
\* (1 <= i < nlist), `chosen` being the indices drawn so far
RECURSIVE DistancesAt(_, _, _)
DistancesAt(ts, chosen, i) ==
  LET before == IF i = 1 THEN [j \in 1..Len(ts) |-> Far]
                ELSE [DistancesAt(ts, chosen, i - 1) EXCEPT ![chosen[i] + 1] = 0]
  IN [j \in 1..Len(ts) |->
        Min2(before[j], sum_of_squares(ts[j], At(ts, chosen[i])))]

\* some sampling of kmeans_pp finds no positive weight
ZeroWeights(ts, nl) ==
  \E ch \in kmeans_pp(ts, nl), i \in 1..(nl - 1) :
    \A j \in 1..Len(ts) : DistancesAt(ts, ch, i)[j] = 0

\* the index sequences kmeans_random_init can draw: nlist distinct indices
kmeans_random_init(ts, nl) ==
  {t \in [1..nl -> 0..(Len(ts) - 1)] : \A a, b \in 1..nl : a # b => t[a] # t[b]}

Copies(ts, chosen) == [i \in 1..Len(chosen) |-> At(ts, chosen[i]) * Den]

AnyCentroids(nl) == [1..nl -> {v * Den : v \in 0..MaxCoord}]

\* the outcomes of the initialization switch of train: the next position of
\* the call, the centroids and the indices drawn
InitOutcomes(kind, ts, nl, c) ==
  LET go(cs, ch) == [pc |-> "t_loop", centroids |-> cs, chosen |-> ch]
      abort == [pc |-> "t_abort", centroids |-> c, chosen |-> <<>>]
      spin == [pc |-> "t_spin", centroids |-> c, chosen |-> <<>>]
  IN CASE kind = "none" -> {go(c, <<>>)}
       [] kind = "kmeanspp" ->
            IF Len(ts) > 0 /\ nl > 0
            THEN {go(Copies(ts, ch), ch) : ch \in kmeans_pp(ts, nl)}
                   \* discrete_distribution of weights that are all 0
                   \cup (IF ZeroWeights(ts, nl) THEN {abort} ELSE {})
            ELSE IF nl = 0
            \* centroids_[0] of a matrix without columns is written
            THEN {abort, go(c, <<>>)}
            \* training_set[choice] of a matrix without columns is read
            ELSE {abort} \cup {go(cs, <<>>) : cs \in AnyCentroids(nl)}
       [] OTHER ->
            IF Len(ts) > 0
            THEN IF nl <= Len(ts)
                 THEN {go(Copies(ts, ch), ch) : ch \in kmeans_random_init(ts, nl)}
                 \* every index is visited and the do-while never ends
                 ELSE {spin}
            ELSE IF nl = 0
            \* uniform_int_distribution(0, -1)
            THEN {abort, go(c, <<>>)}
            \* visited[index] of an empty vector is read
            ELSE {abort, spin} \cup {go(cs, <<>>) : cs \in AnyCentroids(nl)}

TrainingSets == UNION {[1..n -> 0..MaxCoord] : n \in 0..MaxTrainCols}

NoIteration ==
  [ degrees |-> <<>>, parts |-> <<>>, moved |-> <<>>, max_diff |-> 0,
    total_weight |-> 0, low |-> 0, high |-> 0 ]

\* a kmeans_index as constructed, with the centroids set_centroids gave it or
\* the allocation holds, and the arguments of the call of train
InitTrain ==
  /\ HeapIdle /\ QueryInputsIdle /\ StreamerIdle
  /\ db = <<>> /\ shuffled_ids = <<>> /\ indices = <<>> /\ upper_bound = 0
  /\ inf = NoResult /\ fin = NoFinite /\ wk = NoWorkers
  /\ pc = "t_new"
  /\ \E ts \in TrainingSets, nl \in 0..NList, kind \in InitKinds,
        mi \in 0..MaxIter, tol \in Tols :
       \E c \in AnyCentroids(nl) :
         km = [ on |-> TRUE, training_set |-> ts, nlist_ |-> nl, init |-> kind,
                max_iter_ |-> mi, tol_ |-> tol, centroids_ |-> c,
                chosen |-> <<>>, iter |-> 0, ran |-> 0, converged |-> FALSE,
                oob |-> FALSE, error |-> "none", last |-> NoIteration ]

\* train: the switch on init
TrainInit ==
  /\ pc = "t_new"
  /\ \E o \in InitOutcomes(km.init, km.training_set, km.nlist_, km.centroids_) :
       /\ pc' = o.pc
       /\ km' = [km EXCEPT !.centroids_ = o.centroids, !.chosen = o.chosen]
  /\ UNCHANGED <<hvars, ivars, svars, inf, fin, wk>>

\* train_no_init: one iteration of the loop; the break leaves the function
LloydIteration ==
  /\ pc = "t_loop"
  /\ LoopContinues(km.iter, km.max_iter_)
  /\ LET ts == km.training_set
         nl == km.nlist_
         reassign == Reassigns(km.iter, km.max_iter_)
         past == ReadsPast(km.centroids_, ts, nl, reassign)
         \* new_centroids[part] and degrees[part] of empty containers are written
         lost == nl = 0 /\ Len(ts) > 0
     IN \E g \in IF past THEN [1..nl -> Garbage(ts, nl)] ELSE {[i \in 1..nl |-> NoGarbage]},
           w \in IF lost THEN {"abort", "lost"} ELSE {"done"} :
          \E r \in {Lloyd(km.centroids_, ts, nl, reassign, g)} :
           \E conv \in {Converged(r, km.tol_)} :
             IF r.abort \/ w = "abort"
             THEN /\ pc' = "t_abort"
                  /\ km' = [km EXCEPT !.oob = @ \/ r.oob]
             ELSE /\ pc' = IF conv THEN "t_done" ELSE "t_loop"
                  /\ km' = [km EXCEPT !.centroids_ = r.centroids,
                                      !.iter = IF conv THEN @ ELSE @ + 1,
                                      !.ran = @ + 1,
                                      !.converged = conv,
                                      !.oob = @ \/ r.oob,
                                      !.last = [ degrees |-> r.degrees, parts |-> r.parts,
                                                 moved |-> r.moved, max_diff |-> r.max_diff,
                                                 total_weight |-> r.total_weight,
                                                 low |-> r.low, high |-> r.high ]]
  /\ UNCHANGED <<hvars, ivars, svars, inf, fin, wk>>

\* train_no_init: the loop condition fails and the function returns
TrainReturn ==
  /\ pc = "t_loop"
  /\ ~LoopContinues(km.iter, km.max_iter_)
  /\ pc' = "t_done"
  /\ UNCHANGED <<hvars, ivars, svars, inf, fin, wk, km>>

NextTrain == TrainInit \/ LloydIteration \/ TrainReturn

SpecTrain == InitTrain /\ [][NextTrain]_vars

----------------------------------------------------------------------------
(* Claims about training                                                   *)

EmptyInput == km.training_set = <<>> \/ km.nlist_ = 0

\* C18: once train has been called with a training set without vectors or
\* with nlist == 0, whatever the init kind, the call has reported EmptyInput
\* and has neither drawn initial centroids nor run a Lloyd iteration
C18_EmptyInputReported ==
  (km.on /\ pc # "t_new" /\ EmptyInput) =>
    (km.error = "EmptyInput" /\ km.chosen = <<>> /\ km.ran = 0)

\* the convergence test of the last iteration run held
LastConverged ==
  km.ran > 0 /\ km.last.max_diff * km.tol_[2] < km.tol_[1] * km.last.total_weight

\* C19: train_no_init has run at most max_iter iterations; every step of its
\* loop runs one more iteration or leaves the loop, so that the loop is left;
\* it runs no iteration after one whose convergence test held; at max_iter
\* iterations without convergence its next step is the return, which changes
\* nothing; and it has returned without an error, after convergence or after
\* max_iter iterations
C19_TrainNoInitTerminates ==
  /\ [](km.on => km.ran <= km.max_iter_)
  /\ [](pc = "t_loop" => ~LastConverged)
  /\ [](pc = "t_done" => km.error = "none" /\ (LastConverged \/ km.ran = km.max_iter_))
  /\ [][ pc = "t_loop" =>
           /\ pc' # "t_loop" \/ km'.ran = km.ran + 1
           /\ km.ran = km.max_iter_ => (pc' = "t_done" /\ km' = km) ]_vars

\* three iterations with the default tolerance, none converged, then the return
C19_Witness ==
  /\ pc = "t_done" /\ km.max_iter_ = MaxIter /\ km.ran = MaxIter
  /\ km.tol_ = <<1, 40000>> /\ ~LastConverged /\ ~km.oob
  /\ km.nlist_ = NList /\ Len(km.training_set) = MaxTrainCols
  /\ km.last.max_diff > 0

\* the mean of the training vectors the last iteration assigned to centroid j
\* (0-based), as a numerator over Den
PlainMean(j) ==
  LET mine == [i \in 1..Len(km.training_set) |->
                 IF km.last.parts[i] = j THEN km.training_set[i] ELSE 0]
      count == SumSeq([i \in 1..Len(km.training_set) |->
                         IF km.last.parts[i] = j THEN 1 ELSE 0])
  IN IF count = 0 THEN 0 ELSE (SumSeq(mine) * Den) \div count

\* C20: when train_no_init has returned after at least one iteration, the
\* last iteration it ran, ended by max_iter or by convergence, overwrote no
\* centroid with an outlier vector, and every returned centroid is the mean
\* of the vectors that iteration assigned to it
C20_FinalIterationPlain ==
  (pc = "t_done" /\ km.ran > 0 /\ km.nlist_ > 0) =>
    /\ km.last.moved = <<>>
    /\ \A j \in 1..km.nlist_ : km.centroids_[j] = PlainMean(j - 1)

\* the training vectors the last iteration assigned to partition j (0-based)
Members(j) == {i \in 1..Len(km.training_set) : km.last.parts[i] = j}

\* C21: after an iteration that reassigned, every centroid that received an
\* outlier equals that outlier vector, whatever its degree was; and when one
\* outlier was moved to another partition, its previous centroid has lost one
\* unit of degree and the vector: it is the mean of its other members
C21_OutlierBecomesCentroid ==
  (km.on /\ km.ran > 0 /\ ~km.oob /\ km.last.moved # <<>>) =>
    /\ \A m \in 1..Len(km.last.moved) :
         km.centroids_[km.last.moved[m].part + 1] = km.last.moved[m].vec * Den
    /\ (Len(km.last.moved) = 1 /\ km.last.moved[1].from # km.last.moved[1].part) =>
         LET mv == km.last.moved[1]
             rest == Members(mv.from) \ {mv.id + 1}
         IN /\ km.last.degrees[mv.from + 1] = Cardinality(rest)
            /\ rest # {} =>
                 km.centroids_[mv.from + 1] * Cardinality(rest)
                   = Den * SumSeq([i \in 1..Len(km.training_set) |->
                                     IF i \in rest THEN km.training_set[i] ELSE 0])

\* the least squared distance from x to the centroids 0..i-1
MinDistance(ts, chosen, i, x) ==
  CHOOSE d \in {sum_of_squares(x, At(ts, chosen[c])) : c \in 1..i} :
    \A c \in 1..i : d <= sum_of_squares(x, At(ts, chosen[c]))

PPRan == km.on /\ km.init = "kmeanspp" /\ pc = "t_loop" /\ km.ran = 0 /\ ~EmptyInput

\* the weights at every sampling are the least distances to the centroids chosen
PPWeightsAreMinDistances ==
  PPRan =>
    \A i \in 1..(km.nlist_ - 1), j \in 1..Len(km.training_set) :
      DistancesAt(km.training_set, km.chosen, i)[j]
        = MinDistance(km.training_set, km.chosen, i, km.training_set[j])

\* C22: when kmeans_pp has run, the weight of every training vector at every
\* sampling was its least squared distance to the centroids chosen before, no
\* training vector was chosen twice, and the nlist centroids are copies of
\* the chosen training vectors
C22_PlusPlusWeights ==
  /\ PPWeightsAreMinDistances
  /\ PPRan =>
       /\ Len(km.chosen) = km.nlist_
       /\ \A a, b \in 1..Len(km.chosen) : a # b => km.chosen[a] # km.chosen[b]
       /\ km.centroids_ = Copies(km.training_set, km.chosen)

\* C23: a call of train with init random never stays in kmeans_random_init,
\* and once kmeans_random_init has returned, the nlist indices it selected
\* are pairwise distinct and every centroid is a copy of the selected vector
C23_RandomInitTerminates ==
  (km.on /\ km.init = "random") =>
    /\ pc # "t_spin"
    /\ (pc = "t_loop" /\ km.ran = 0 /\ ~EmptyInput) =>
         /\ Len(km.chosen) = km.nlist_
         /\ \A a, b \in 1..Len(km.chosen) : a # b => km.chosen[a] # km.chosen[b]
         /\ km.centroids_ = Copies(km.training_set, km.chosen)

----------------------------------------------------------------------------
(* Further claims about the finite-RAM query                               *)

\* the windows whose workers have run and have been joined
Processed ==
  CASE pc = "q_loop" -> Len(served) - 1
    [] pc = "q_merge" -> Len(served)
    [] OTHER -> 0

\* positions of the active partitions that worker n (0-based) has processed
ChunksOf(n) ==
  UNION { LET w == [col_part_view_ |-> served[i]]
          IN {served[i][1] + p : p \in first_part(w, n)..(last_part(w, n) - 1)} :
          i \in 1..Processed }

\* the columns worker n has had to score for query j (1-based)
WorkOf(n, j) ==
  UNION { ColumnsOf(At(active, a)) :
            a \in {b \in ChunksOf(n) : \E p \in 1..nprobe : top_centroids[j][p] = At(active, b)} }

\* the resident partitions lie in exactly one chunk each
ChunksPartition ==
  \A p \in 0..(num_col_parts(sm) - 1) :
    Cardinality({n \in 0..(nthreads - 1) : first_part(sm, n) <= p /\ p < last_part(sm, n)}) = 1

\* buffer columns new_indices[partno] - col_offset() up to
\* new_indices[partno + 1] - col_offset() are inside the window and hold the
\* columns of the partition
ChunkColumns ==
  \A p \in 0..(num_col_parts(sm) - 1) :
    LET partno == p + col_part_offset(sm)
        start == At(fin.new_indices, partno)
        stop == At(fin.new_indices, partno + 1)
        c == At(active, partno)
    IN /\ stop - start = At(indices, c + 1) - At(indices, c)
       /\ \A kk \in start..(stop - 1) :
            LET kp == kk - col_offset(sm)
            IN /\ 0 <= kp /\ kp < sm.num_cols_
               /\ At(sm.data_, kp) = At(indices, c) + (kk - start)
               /\ At(ids(sm), kp) = At(shuffled_ids, At(indices, c) + (kk - start))

\* C25: while a window is resident its partitions lie in exactly one worker
\* chunk each, and the buffer columns a worker takes for a partition are
\* inside the window and hold that partition; and after the workers of a
\* window are joined, the heap of worker n for query j holds the best k_nn of
\* the columns of the partitions of n's chunks that j probes, each column
\* scored once, at its distance to the query
C25_ChunksCoverWindow ==
  /\ pc = "q_loop" => (ChunksPartition /\ ChunkColumns)
  /\ pc \in {"q_loop", "q_merge"} =>
       \A n \in 0..(nthreads - 1), j \in 1..Len(q) :
         LET h == fin.min_scores[n + 1][j]
         IN /\ Len(h) = Min2(k_nn, Cardinality(WorkOf(n, j)))
            /\ \A a, b \in 1..Len(h) : a # b => h[a][2] # h[b][2]
            /\ \A a \in 1..Len(h) :
                 \E c \in WorkOf(n, j) :
                   h[a] = <<Distance(j, c), At(shuffled_ids, c)>>
            /\ \A c \in WorkOf(n, j) :
                 (\A a \in 1..Len(h) : h[a][2] # At(shuffled_ids, c)) =>
                   \A a \in 1..Len(h) : h[a][1] <= Distance(j, c)

\* two workers have each processed one partition of one window for a query
\* that probes both
C25_Witness ==
  /\ pc = "q_merge" /\ nthreads = 2 /\ served = <<<<0, 2>>>> /\ nprobe = 2
  /\ \E j \in 1..Len(q) :
       /\ fin.min_scores[1][j] # <<>> /\ fin.min_scores[2][j] # <<>>
       /\ Cardinality(WorkOf(1, j)) > k_nn

----------------------------------------------------------------------------
(* The window capacity in the integer widths of the code                   *)
(*                                                                         *)
(* `auto total_max_cols = 0` is an int; indices_ and max_cols_ are 64-bit  *)
(* unsigned.  The widths are scaled down so that sums past the int range   *)
(* are reached with a few small partitions: an int of IntBits bits holds   *)
(* -2^(IntBits-1) .. 2^(IntBits-1)-1, a size_t of SizeBits bits holds      *)
(* 0 .. 2^SizeBits-1.                                                      *)

\* the width of int, scaled
IntBits == 3

\* the width of size_t, scaled
SizeBits == 5

\* largest partition of the capacity scenarios
WMaxSize == 3

\* conversion of a value to int: modulo 2^IntBits, into the signed range
ToInt(x) == ((x + 2^(IntBits - 1)) % 2^IntBits) - 2^(IntBits - 1)

\* conversion of a value to size_t: modulo 2^SizeBits
ToSize(x) == x % 2^SizeBits

\* the loop `total_max_cols += indices_[parts_[i] + 1] - indices_[parts_[i]]`
\* over the first n active partitions: the int is converted to the unsigned
\* type of the difference, the sum is taken there and converted back to int
RECURSIVE total_max_cols_int(_, _, _)
total_max_cols_int(ind, parts, n) ==
  IF n = 0 THEN 0
  ELSE LET before == total_max_cols_int(ind, parts, n - 1)
           len == ToSize(At(ind, parts[n] + 1) - At(ind, parts[n]))
       IN ToInt(ToSize(ToSize(before) + len))

\* `if (upper_bound == 0 || upper_bound > total_max_cols)`: the int is
\* converted to size_t for the comparison and for the assignment to max_cols_
max_cols_sized(upper, total) ==
  IF upper = 0 \/ upper > ToSize(total) THEN ToSize(total) ELSE upper

\* the constructor with the sum kept in an int
construct_sized(in_indices, in_parts, upper, num_array_cols, ids_array) ==
  LET ind == RepairLast(in_indices, num_array_cols)
      total == total_max_cols_int(ind, in_parts, Len(in_parts))
      cap == max_cols_sized(upper, total)
      s0 == [NoStreamer EXCEPT !.built = TRUE,
                               !.indices_ = ind,
                               !.parts_ = in_parts,
                               !.total_num_parts_ = Len(in_parts),
                               !.num_array_cols_ = num_array_cols,
                               !.max_cols_ = cap,
                               !.ids_ = [i \in 1..cap |-> 0],
                               !.data_ = [i \in 1..cap |-> -1]]
  IN IF IndicesInvalid(in_indices, num_array_cols)
     THEN <<[NoStreamer EXCEPT !.indices_ = in_indices, !.parts_ = in_parts], "throw">>
     ELSE advance(s0, ids_array)

InitSized ==
  /\ HeapIdle /\ QueryInputsIdle /\ QueryIdle
  /\ \E sizes \in [1..SParts -> 0..WMaxSize], A \in SUBSET (0..(SParts - 1)),
        ub \in 0..SMaxUpper :
       /\ indices = IndicesOf(sizes)
       /\ active = SetToSeq(A)
       /\ upper_bound = ub
  /\ db = [c \in 1..indices[Len(indices)] |-> <<0>>]
  /\ shuffled_ids = ReversedIds(indices[Len(indices)])
  /\ sm = NoStreamer /\ ret = "none" /\ served = <<>>
  /\ pc = "w_new"

WConstruct ==
  /\ pc = "w_new"
  /\ LET r == construct_sized(indices, active, upper_bound, Len(db), shuffled_ids)
     IN /\ sm' = r[1]
        /\ ret' = r[2]
        /\ served' = IF r[2] = "true" THEN <<Window(r[1])>> ELSE <<>>
        /\ pc' = "w_done"
  /\ UNCHANGED <<xvars, hvars, ivars, active, inf, fin>>

NextSized == WConstruct

SpecSized == InitSized /\ [][NextSized]_vars

\* the exact sum of the active partitions' sizes, after the repair of indices
ExactTotal == TotalMaxCols(RepairLast(indices, Len(db)), active)

\* C26: the capacity the constructor sets is total_max_cols when upper_bound
\* is 0 and min(upper_bound, total_max_cols) otherwise, total_max_cols being
\* the exact sum of the active partitions' sizes, also when that sum is past
\* the range of an int
C26_ExactCapacity ==
  (pc = "w_done" /\ sm.built) => sm.max_cols_ = MaxCols(upper_bound, ExactTotal)

\* the same, for sums an int holds
C26_CapacityWithinInt ==
  (pc = "w_done" /\ sm.built /\ ExactTotal < 2^(IntBits - 1))
    => sm.max_cols_ = MaxCols(upper_bound, ExactTotal)

----------------------------------------------------------------------------
(* Empty partitions in a window                                            *)

\* positions of parts_ in the current window
WindowPositions == sm.col_part_view_[1]..(sm.col_part_view_[2] - 1)

\* the columns of the partitions of the current window
WindowColumns ==
  { c \in 0..(Len(db) - 1) :
      \E i \in WindowPositions :
        /\ At(sm.indices_, At(sm.parts_, i)) <= c
        /\ c < At(sm.indices_, At(sm.parts_, i) + 1) }

\* C27: a window (of the constructor or of a later advance) whose absorbed
\* partitions are all empty makes the call throw "Invalid partitioning"
\* rather than return false; a call that returns false absorbed nothing; a
\* window that mixes empty and non-empty partitions is loaded without error
\* and holds exactly the columns of its non-empty partitions
C27_EmptyWindowThrows ==
  (pc \in {"s_live", "s_dead"} /\ sm.built) =>
    /\ (WindowPositions # {} /\ \A i \in WindowPositions : PartSize(sm, i) = 0)
         => ret = "throw"
    /\ ret = "false" => WindowPositions = {}
    /\ (\E i \in WindowPositions : PartSize(sm, i) # 0) =>
         /\ ret = "true"
         /\ sm.num_cols_ = Cardinality(WindowColumns)
         /\ { sm.data_[c] : c \in 1..sm.num_cols_ } = WindowColumns

\* the first window holds two empty partitions and nothing else, a non-empty
\* active partition follows them, and the advance of the constructor has thrown
C27_Witness ==
  /\ pc = "s_dead" /\ sm.built /\ ret = "throw"
  /\ Cardinality(WindowPositions) = 2
  /\ \A i \in WindowPositions : PartSize(sm, i) = 0
  /\ Len(sm.parts_) = 3 /\ PartSize(sm, 2) # 0

\* a loaded window that holds an empty partition next to a non-empty one
C27_MixedWindow ==
  /\ pc = "s_live" /\ ret = "true"
  /\ \E i, j \in WindowPositions : PartSize(sm, i) = 0 /\ PartSize(sm, j) # 0

----------------------------------------------------------------------------
(* Every probed vector inserted once                                       *)

\* the shuffled ids are pairwise distinct and so are the probes of a query
DistinctIdsAndProbes ==
  /\ \A a, b \in 1..Len(shuffled_ids) : a # b => shuffled_ids[a] # shuffled_ids[b]
  /\ \A j \in 1..Len(q) : \A a, b \in 1..nprobe :
       a # b => top_centroids[j][a] # top_centroids[j][b]

\* no id twice among the candidates written to column j of a result
NoIdTwice(res, j) ==
  \A a, b \in 1..Len(res.heaps[j]) : a # b => res.top_k[j][a] # res.top_k[j][b]

\* column j of a result is what one insertion of every vector of the probed
\* partitions leaves: as many candidates as the heap can take, the k_nn
\* smallest distances, each with the id of a probed vector at that distance,
\* and no id twice
InsertedOnce(res, j) ==
  /\ Len(res.heaps[j]) = Filled(j)
  /\ Distances(res, j) = KBest(CandidateScores(j), k_nn, "less")
  /\ \A i \in 1..Len(res.heaps[j]) :
       \E c \in Candidates(j) :
         /\ res.top_k[j][i] = At(shuffled_ids, c)
         /\ Distance(j, c) = Distances(res, j)[i]
  /\ NoIdTwice(res, j)

\* C28: with pairwise distinct shuffled ids and distinct probes, every vector
\* of a probed partition is inserted exactly once for the query, and no id is
\* written twice to the query's result column, in the infinite-RAM and in the
\* finite-RAM query
C28_InsertedExactlyOnce ==
  DistinctIdsAndProbes =>
    /\ pc # "q_new" => \A j \in 1..Len(q) : InsertedOnce(inf, j)
    /\ pc = "q_done" => \A j \in 1..Len(q) : InsertedOnce(fin, j)

\* the part of C28 about ids written twice
C28_NoIdTwice ==
  DistinctIdsAndProbes =>
    /\ pc # "q_new" => \A j \in 1..Len(q) : NoIdTwice(inf, j)
    /\ pc = "q_done" => \A j \in 1..Len(q) : NoIdTwice(fin, j)

\* C28 with a permissive upper_bound
C28_InsertedOncePermissive ==
  (DistinctIdsAndProbes /\ Permissive) =>
    /\ pc # "q_new" => \A j \in 1..Len(q) : InsertedOnce(inf, j)
    /\ pc = "q_done" => \A j \in 1..Len(q) : InsertedOnce(fin, j)

----------------------------------------------------------------------------
(* The degrees over the reassignment loop                                  *)

\* the number of the first n moves of the last iteration into partition j
MovesInto(j, n) == Cardinality({m \in 1..n : km.last.moved[m].part = j})

\* the number of the first n moves of the last iteration out of partition j
MovesOutOf(j, n) == Cardinality({m \in 1..n : km.last.moved[m].from = j})

\* degrees[j] (j 0-based) after the first n moves of the last iteration
DegreeAfter(j, n) ==
  LET all == Len(km.last.moved)
  IN km.last.degrees[j + 1] - (MovesInto(j, all) - MovesInto(j, n))
                            + (MovesOutOf(j, all) - MovesOutOf(j, n))

\* the degrees count the members before the reassignment loop, their sum is
\* the number of training vectors before and after it, and no degree is below
\* zero after any move
DegreesConserved ==
  LET n == Len(km.training_set)
      all == Len(km.last.moved)
      cents == 0..(km.nlist_ - 1)
  IN /\ Len(km.last.degrees) = km.nlist_
     /\ \A j \in cents : DegreeAfter(j, 0) = Cardinality(Members(j))
     /\ SumSeq([j \in 1..km.nlist_ |-> DegreeAfter(j - 1, 0)]) = n
     /\ SumSeq(km.last.degrees) = n
     /\ \A j \in cents : \A m \in 0..all : DegreeAfter(j, m) >= 0

\* C29: in every Lloyd iteration in which the training set has at least as
\* many vectors as reassignments are made, the degrees sum to the number of
\* training vectors before and after the reassignment loop and no degree is
\* decremented below zero
C29_DegreesConserved ==
  (km.on /\ km.ran > 0 /\ Len(km.training_set) >= Len(km.last.moved))
    => DegreesConserved

\* C29 for an index that has a centroid
C29_DegreesConservedWithCentroids ==
  (km.on /\ km.ran > 0 /\ km.nlist_ >= 1
     /\ Len(km.training_set) >= Len(km.last.moved))
    => DegreesConserved

\* an outlier was moved to the low-degree centroid it belonged to
C29_OutlierOfReceiver ==
  /\ km.on /\ km.ran > 0 /\ ~km.oob
  /\ \E m \in 1..Len(km.last.moved) : km.last.moved[m].from = km.last.moved[m].part

----------------------------------------------------------------------------
(* The reads of high_scores in the reassignment loop                       *)

\* C30: for every nlist >= 1 and every training set, no iteration of
\* train_no_init has read high_scores[i] at an index i that is not smaller
\* than the number of pairs high_scores holds
C30_ReadsInRange ==
  (km.on /\ km.nlist_ >= 1) => ~km.oob

\* C30 for a training set of at least nlist vectors
C30_ReadsInRangeEnoughVectors ==
  (km.on /\ km.nlist_ >= 1 /\ Len(km.training_set) >= km.nlist_) => ~km.oob

====
